---- MODULE Spec2Model ----
(***************************************************************************)
(* Model of the multi-phase orchestrator of src/src/orchestrator.ts:       *)
(* MultiPhaseOrchestrator.runPhase / orchestrate and the helpers they      *)
(* call (loadInstructionFile, getAgentConfig, savePhaseOutput).            *)
(*                                                                         *)
(* Strings are TLA+ strings; a JavaScript object used as an ordered map    *)
(* is a sequence of <<key, value>> pairs in insertion order.  The output   *)
(* directory is a function from file name to the JSON text of the file.    *)
(* runPhase contains no await, so one invocation is one step; orchestrate  *)
(* is one step from each await to the next.                                *)
(***************************************************************************)
EXTENDS Integers, Sequences, FiniteSets, TLC

VARIABLES
    clock,            \* the last value read from the millisecond clock (new Date())
    instr,            \* instructions directory: file name -> [kind, text]
    outputs,          \* output directory: file name -> content
    writeCount,       \* history: file name -> number of writeFileSync calls that wrote it
    written,          \* history, per caller: its successful writeFileSync calls, in order
    writeFailures,    \* history, per caller: its writeFileSync calls that threw, in order
    calls,            \* history, per caller: its runPhase invocations, in order
    phaseResults,     \* the instance field this.phaseResults
    pc,               \* per orchestrate call: where it is
    task,             \* per orchestrate call: the task argument
    results,          \* per orchestrate call: the local `results`
    previousResults,  \* per orchestrate call: the local `previousResults`
    awaited,          \* per orchestrate call: the value the awaited runPhase resolved with
    err,              \* per orchestrate call: the error it rejected with ("" if none)
    existing,         \* the file system: the paths at which a directory or file exists
    instructionsDir,  \* the instance field this.instructionsDir (a path)
    outputDir,        \* the instance field this.outputDir (a path)
    constructions,    \* the number of `new MultiPhaseOrchestrator(...)` evaluated so far
    constructed,      \* the outcome of the latest one: "none", "ok", "threw"
    command,          \* the command typed: "ts-node" (orchestrator.ts) or "complex-task"
    argv,             \* its arguments: the task words (after `orchestrate` for complex-task)
    orchestratorPath, \* the path of the orchestrator.ts that is executed
    procPc,           \* the command: "shell" (typed), "spawned", "main" (constructed), "exited"
    exitCode,         \* its exit code (-1 while it has not exited)
    gitignore,        \* the content of the project's .gitignore ("" while there is none)
    initReports       \* what each `complex-task init` so far reported, in order

\* the variables of the process and its file system around the orchestrator
hostVars == <<existing, instructionsDir, outputDir, constructions, constructed,
              command, argv, orchestratorPath, procPc, exitCode, gitignore, initReports>>

vars == <<clock, instr, outputs, writeCount, written, writeFailures, calls, phaseResults,
          pc, task, results, previousResults, awaited, err, existing, instructionsDir,
          outputDir, constructions, constructed, command, argv, orchestratorPath,
          procPc, exitCode, gitignore, initReports>>

----------------------------------------------------------------------------
(* Bounds of the model *)

\* how many times the constructor is evaluated
MaxConstructions == 3

\* first reading of the clock, in milliseconds since the start of the epoch day
ClockBase == 9
\* the clock advances by at most this many milliseconds during a behaviour
MaxTicks == 1
\* how far beyond the preview threshold the longest prior result reaches
MaxExtra == 2

----------------------------------------------------------------------------
(* Strings *)

Min(a, b) == IF a < b THEN a ELSE b

CharAt(s, i) == SubSeq(s, i, i)

\* s repeated n times
RECURSIVE Rep(_, _)
Rep(s, n) ==
    IF n = 0 THEN ""
    ELSE IF n % 2 = 0 THEN LET h == Rep(s, n \div 2) IN h \o h
    ELSE s \o Rep(s, n - 1)

\* the characters that occur in file names, in increasing code unit order
Alphabet == "-.0123456789TZ_abcdefghijklmnopqrstuvwxyz"

CharCode(c) == CHOOSE i \in 1..Len(Alphabet) : CharAt(Alphabet, i) = c

\* a < b in the order of String.prototype.localeCompare / Array.prototype.sort
\* restricted to Alphabet (code unit order)
RECURSIVE StrLess(_, _)
StrLess(a, b) ==
    IF Len(b) = 0 THEN FALSE
    ELSE IF Len(a) = 0 THEN TRUE
    ELSE IF CharAt(a, 1) = CharAt(b, 1)
         THEN StrLess(SubSeq(a, 2, Len(a)), SubSeq(b, 2, Len(b)))
         ELSE CharCode(CharAt(a, 1)) < CharCode(CharAt(b, 1))

\* the first index at which pat occurs in s, 0 if none
IndexOf(s, pat) ==
    LET hits == {i \in 1..(Len(s) - Len(pat) + 1) : SubSeq(s, i, i + Len(pat) - 1) = pat}
    IN  IF hits = {} THEN 0 ELSE CHOOSE i \in hits : \A j \in hits : i <= j

Contains(s, pat) == IndexOf(s, pat) # 0

\* String.prototype.replace(pat, rep) with a string pattern: the first occurrence
ReplaceFirst(s, pat, rep) ==
    LET i == IndexOf(s, pat)
    IN  IF i = 0 THEN s
        ELSE SubSeq(s, 1, i - 1) \o rep \o SubSeq(s, i + Len(pat), Len(s))

\* String.prototype.replace(/:/g, "-")
RECURSIVE ReplaceColons(_)
ReplaceColons(s) ==
    IF Len(s) = 0 THEN ""
    ELSE (IF CharAt(s, 1) = ":" THEN "-" ELSE CharAt(s, 1))
         \o ReplaceColons(SubSeq(s, 2, Len(s)))

Lower == "abcdefghijklmnopqrstuvwxyz"
UpperLetters == "ABCDEFGHIJKLMNOPQRSTUVWXYZ"

UpperChar(c) ==
    IF \E i \in 1..26 : CharAt(Lower, i) = c
    THEN CharAt(UpperLetters, CHOOSE i \in 1..26 : CharAt(Lower, i) = c)
    ELSE c

RECURSIVE UpperOf(_)
UpperOf(s) ==
    IF Len(s) = 0 THEN ""
    ELSE UpperChar(CharAt(s, 1)) \o UpperOf(SubSeq(s, 2, Len(s)))

\* the phase names the model passes to runPhase
PhaseNames == {"research", "plan", "implement", "correct", "deploy", "constructor", ""}

\* UpperOf tabulated on the phase names (evaluated once)
UpperTable == [s \in PhaseNames |-> UpperOf(s)]

\* String.prototype.toUpperCase on the characters the model uses
ToUpperCase(s) == IF s \in PhaseNames THEN UpperTable[s] ELSE UpperOf(s)

Digits == "0123456789"

Digit(d) == CharAt(Digits, d + 1)

Pad2(n) == Digit((n \div 10) % 10) \o Digit(n % 10)

Pad3(n) == Digit((n \div 100) % 10) \o Pad2(n)

ToISOStringUnpadded(t) ==
    "1970-01-01T00:00:" \o Digit((t \div 1000) % 60) \o "."
        \o (IF t % 1000 >= 10 THEN Pad2(t % 1000) ELSE Digit(t % 1000)) \o "Z"

\* Date.prototype.toISOString for an instant t milliseconds into the epoch day
ToISOString(t) ==
    "1970-01-01T" \o Pad2((t \div 3600000) % 24) \o ":" \o Pad2((t \div 60000) % 60)
        \o ":" \o Pad2((t \div 1000) % 60) \o "." \o Pad3(t % 1000) \o "Z"

----------------------------------------------------------------------------
(* JavaScript objects as ordered maps, and JSON.stringify(value, null, 2) *)

EmptyMap == <<>>

Keys(m) == [i \in 1..Len(m) |-> m[i][1]]

HasKey(m, k) == \E i \in 1..Len(m) : m[i][1] = k

PutNothing(m, k, v) == m

\* m[k] = v: an existing key keeps its position, a new key is appended
Put(m, k, v) ==
    IF HasKey(m, k)
    THEN [i \in 1..Len(m) |-> IF m[i][1] = k THEN <<k, v>> ELSE m[i]]
    ELSE Append(m, <<k, v>>)

\* the escapes JSON.stringify applies inside a string
RECURSIVE JsonEscape(_)
JsonEscape(s) ==
    IF Len(s) = 0 THEN ""
    ELSE IF Len(s) = 1
         THEN CASE s = "\n" -> "\\n"
                [] s = "\"" -> "\\\""
                [] s = "\\" -> "\\\\"
                [] OTHER -> s
         ELSE LET h == Len(s) \div 2
              IN  JsonEscape(SubSeq(s, 1, h)) \o JsonEscape(SubSeq(s, h + 1, Len(s)))

----------------------------------------------------------------------------
(* MultiPhaseOrchestrator: the synchronous helpers *)

InstructionSuffix == "-phase.instructions.md"

LoadInstructionFileCached(dir, filename) ==
    [threw |-> FALSE, warned |-> FALSE, text |-> "# Research Phase Agent Instructions"]

LoadInstructionFileFailing(dir, filename) ==
    IF filename \in DOMAIN dir /\ dir[filename].kind = "file"
    THEN [threw |-> FALSE, warned |-> FALSE, text |-> dir[filename].text]
    ELSE [threw |-> TRUE, warned |-> FALSE, text |-> ""]

\* loadInstructionFile(filename) against the instructions directory dir:
\* existsSync false -> warning and synthesized text; readFileSync of an entry
\* that is not a readable file throws
LoadInstructionFile(dir, filename) ==
    IF filename \notin DOMAIN dir
    THEN [threw |-> FALSE, warned |-> TRUE,
          text |-> "Execute the " \o ReplaceFirst(filename, InstructionSuffix, "")
                   \o " phase of the workflow."]
    ELSE IF dir[filename].kind = "file"
         THEN [threw |-> FALSE, warned |-> FALSE, text |-> dir[filename].text]
         ELSE [threw |-> TRUE, warned |-> FALSE, text |-> ""]

\* property names every object literal inherits from Object.prototype
ObjectPrototypeKeys == {"constructor", "toString", "valueOf", "hasOwnProperty", "__proto__"}

\* getAgentConfig(phase): configs[phase] || default.  hasTools is FALSE when the
\* value found has no `tools` property (an inherited member of Object.prototype)
GetAgentConfig(phase) ==
    CASE phase = "research" ->
            [description |-> "Research specialist for thorough analysis and requirement gathering",
             tools |-> <<"Read", "Grep", "Glob", "WebSearch", "WebFetch", "Task">>,
             model |-> "opus", hasTools |-> TRUE]
      [] phase = "plan" ->
            [description |-> "Planning expert for creating detailed implementation plans",
             tools |-> <<"Read", "Write", "Grep", "Glob", "Task">>,
             model |-> "opus", hasTools |-> TRUE]
      [] phase = "implement" ->
            [description |-> "Expert developer for implementing code following specifications",
             tools |-> <<"Read", "Write", "Edit", "Bash", "Grep", "Glob", "TodoWrite">>,
             model |-> "sonnet", hasTools |-> TRUE]
      [] phase = "correct" ->
            [description |-> "Quality assurance expert for reviewing and correcting implementations",
             tools |-> <<"Read", "Edit", "Bash", "Grep", "Glob", "TodoWrite">>,
             model |-> "opus", hasTools |-> TRUE]
      [] phase \in ObjectPrototypeKeys ->
            [description |-> "undefined", tools |-> <<>>, model |-> "undefined",
             hasTools |-> FALSE]
      [] OTHER ->
            [description |-> ToUpperCase(SubSeq(phase, 1, Min(1, Len(phase))))
                             \o SubSeq(phase, 2, Len(phase)) \o " phase specialist",
             tools |-> <<"Read", "Write", "Grep", "Glob">>,
             model |-> "sonnet", hasTools |-> TRUE]

\* the threshold of `result.length > 1000`
PreviewLimit == 1000

TruncationMarker == "..."

PreviewOffByOne(result) ==
    IF Len(result) >= PreviewLimit
    THEN SubSeq(result, 1, PreviewLimit) \o TruncationMarker
    ELSE result

\* const preview = result.length > 1000 ? result.substring(0, 1000) + "..." : result
Preview(result) ==
    IF Len(result) > PreviewLimit
    THEN SubSeq(result, 1, PreviewLimit) \o TruncationMarker
    ELSE result

ContextBlockLabelOnly(prevPhase, result) ==
    "\n### " \o ToUpperCase(prevPhase) \o " Phase:\n"

\* one iteration of the loop over Object.entries(previousResults)
ContextBlock(prevPhase, result) ==
    "\n### " \o ToUpperCase(prevPhase) \o " Phase:\n" \o Preview(result) \o "\n"

RECURSIVE ContextBlocks(_)
ContextBlocks(entries) ==
    IF Len(entries) = 0 THEN ""
    ELSE ContextBlock(entries[1][1], entries[1][2]) \o ContextBlocks(Tail(entries))

ContextHeader == "\n\n## Context from Previous Phases:\n"

InstructionHeader == "\n\n## Phase Instructions:\n"

\* the optional parameter previousResults: not passed, or a map
NoPrevious == [given |-> FALSE, entries |-> EmptyMap]

Previous(m) == [given |-> TRUE, entries |-> m]

FullPromptAlwaysWithContext(taskDescription, prev, phaseInstructions) ==
    taskDescription \o ContextHeader \o ContextBlocks(prev.entries)
    \o InstructionHeader \o phaseInstructions

FullPromptTruncatingInstructions(taskDescription, prev, phaseInstructions) ==
    taskDescription
    \o (IF prev.given /\ Len(prev.entries) > 0
        THEN ContextHeader \o ContextBlocks(prev.entries)
        ELSE "")
    \o InstructionHeader \o Preview(phaseInstructions)

\* runPhase: the assembly of fullPrompt
FullPrompt(taskDescription, prev, phaseInstructions) ==
    taskDescription
    \o (IF prev.given /\ Len(prev.entries) > 0
        THEN ContextHeader \o ContextBlocks(prev.entries)
        ELSE "")
    \o InstructionHeader \o phaseInstructions

WorkerResultEmpty(phaseName) == ""

\* the placeholder that stands for the agent's response
WorkerResult(phaseName) ==
    "[" \o ToUpperCase(phaseName) \o " PHASE COMPLETE]\n\nThis is where the agent's response would be captured.\n\nIn a real implementation, this would use the Claude Agent SDK to:\n1. Spawn a sub-agent with the specified model and tools\n2. Pass the full prompt with instructions\n3. Capture the agent's response\n4. Return the results"

\* JsonEscape tabulated on the worker results (evaluated once)
EscapeTable == [s \in {WorkerResult(p) : p \in PhaseNames} |-> JsonEscape(s)]

JsonString(s) ==
    "\"" \o (IF s \in DOMAIN EscapeTable THEN EscapeTable[s] ELSE JsonEscape(s)) \o "\""

RECURSIVE JsonMembers(_)
JsonMembers(m) ==
    IF Len(m) = 0 THEN ""
    ELSE "\n  " \o JsonString(m[1][1]) \o ": " \o JsonString(m[1][2])
         \o (IF Len(m) > 1 THEN "," ELSE "") \o JsonMembers(Tail(m))

\* JSON.stringify(m, null, 2) of an object whose values are strings
JsonStringify(m) == IF Len(m) = 0 THEN "{}" ELSE "{" \o JsonMembers(m) \o "\n}"

PhaseFileNameWithoutPhase(phase, t) == "phase_" \o ReplaceColons(ToISOString(t)) \o ".json"

PhaseFileNameUnpadded(phase, t) ==
    phase \o "_1970-01-01T00-00-" \o Digit((t \div 1000) % 60) \o "."
          \o (IF t % 1000 >= 10 THEN Pad2(t % 1000) ELSE Digit(t % 1000)) \o "Z.json"

\* savePhaseOutput: the file name for phase `phase` when the clock reads t
PhaseFileName(phase, t) == phase \o "_" \o ReplaceColons(ToISOString(t)) \o ".json"

\* orchestrate: the file name of the summary when the clock reads t
SummaryFileName(t) == "workflow_summary_" \o ReplaceColons(ToISOString(t)) \o ".json"

PhaseOutputMapWithPromptPreview(phaseOutput) ==
    <<<<"phase", phaseOutput.phase>>, <<"timestamp", phaseOutput.timestamp>>,
      <<"result", SubSeq(phaseOutput.result, 1, Min(200, Len(phaseOutput.result))) \o "...">>>>

PhaseOutputMapWithError(phaseOutput) ==
    <<<<"phase", phaseOutput.phase>>, <<"timestamp", phaseOutput.timestamp>>,
      <<"result", phaseOutput.result>>, <<"error", "Error: worker failed">>>>

\* the PhaseOutput object as the ordered map JSON.stringify sees: runPhase never
\* assigns the optional `error` member, and JSON.stringify omits an absent member
PhaseOutputMap(phaseOutput) ==
    <<<<"phase", phaseOutput.phase>>, <<"timestamp", phaseOutput.timestamp>>,
      <<"result", phaseOutput.result>>>>

----------------------------------------------------------------------------
(* MultiPhaseOrchestrator.runPhase *)

\* One runPhase(phaseName, taskDescription, previousResults) invocation against
\* the instructions directory dir.  t1 is what the clock reads for the record's
\* timestamp, t2 what it reads in savePhaseOutput, writeOk whether writeFileSync
\* succeeds.  runPhase has no try/catch: whatever a step throws rejects the
\* promise it returns.  `reads` counts the clock readings made.
RunPhase(phaseName, taskDescription, prev, dir, t1, t2, writeOk) ==
    LET loaded == LoadInstructionFile(dir, phaseName \o InstructionSuffix)
        agentConfig == GetAgentConfig(phaseName)
        fullPrompt == FullPrompt(taskDescription, prev, loaded.text)
        phaseOutput == [phase |-> phaseName, timestamp |-> ToISOString(t1),
                        result |-> WorkerResult(phaseName)]
        base == [phase |-> phaseName, taskDescription |-> taskDescription, prev |-> prev,
                 warned |-> loaded.warned, threw |-> TRUE, failedAt |-> "", error |-> "",
                 prompt |-> "", phaseOutput |-> [phase |-> phaseName, timestamp |-> "",
                                                 result |-> ""],
                 file |-> "", wrote |-> FALSE, result |-> "", reads |-> 0]
    IN  IF loaded.threw
        THEN [base EXCEPT !.failedAt = "loadInstructionFile",
                          !.error = "Error: readFileSync failed"]
        ELSE IF ~agentConfig.hasTools
        THEN [base EXCEPT !.failedAt = "agentConfig.tools.join",
                          !.error = "TypeError: Cannot read properties of undefined",
                          !.prompt = fullPrompt,
                          !.phaseOutput = [phaseOutput EXCEPT !.result = ""],
                          !.reads = 1]
        ELSE IF ~writeOk
        THEN [base EXCEPT !.failedAt = "savePhaseOutput",
                          !.error = "Error: writeFileSync failed",
                          !.prompt = fullPrompt, !.phaseOutput = phaseOutput,
                          !.reads = 2]
        ELSE [base EXCEPT !.threw = FALSE, !.prompt = fullPrompt,
                          !.phaseOutput = phaseOutput,
                          !.file = PhaseFileName(phaseName, t2), !.wrote = TRUE,
                          !.result = phaseOutput.result, !.reads = 2]

\* the value of the clock after a runPhase that read t1 and then t2
ClockAfter(out, t1, t2) == IF out.reads = 0 THEN clock ELSE IF out.reads = 1 THEN t1 ELSE t2

\* fs.writeFileSync(path.join(outputDir, name), text): creates or replaces the file
WriteFile(dir, name, text) ==
    [n \in (DOMAIN dir) \cup {name} |-> IF n = name THEN text ELSE dir[n]]

\* the history of writes after one more writeFileSync of file `name`
CountWrite(count, name) ==
    [n \in (DOMAIN count) \cup {name} |->
        IF n = name THEN (IF n \in DOMAIN count THEN count[n] + 1 ELSE 1) ELSE count[n]]

StoreResultBeforeSave(field, out) ==
    IF out.wrote \/ out.failedAt = "savePhaseOutput"
    THEN Put(field, out.phase, out.phaseOutput.result)
    ELSE field

\* `this.phaseResults[phaseName] = phaseOutput.result` (line 130), which is
\* reached only when savePhaseOutput (line 127) has returned
StoreResult(field, out) ==
    IF out.wrote THEN Put(field, out.phase, out.result) ELSE field

\* the effect of one runPhase invocation made by `who` on the shared state
DoRunPhase(who, out, t1, t2) ==
    /\ clock' = ClockAfter(out, t1, t2)
    /\ calls' = [calls EXCEPT ![who] = Append(@, out)]
    /\ writeFailures' = IF out.failedAt = "savePhaseOutput"
                        THEN [writeFailures EXCEPT ![who] = Append(@, "phase")]
                        ELSE writeFailures
    /\ IF out.wrote
       THEN LET text == JsonStringify(PhaseOutputMap(out.phaseOutput))
            IN  /\ outputs' = WriteFile(outputs, out.file, text)
                /\ writeCount' = CountWrite(writeCount, out.file)
                /\ written' = [written EXCEPT ![who] =
                                  Append(@, [kind |-> "phase", phase |-> out.phase,
                                             name |-> out.file, text |-> text])]
       ELSE UNCHANGED <<outputs, writeCount, written>>
    /\ phaseResults' = StoreResult(phaseResults, out)
    /\ UNCHANGED hostVars

----------------------------------------------------------------------------
(* The environment: the clock, the instructions directory, the callers *)

MaxClock == ClockBase + MaxTicks

\* what a reading of the clock can return when the last reading was `from`
Readings(from) == from..MaxClock

ResearchFile == "research-phase.instructions.md"

\* the instruction files the repository ships
ShippedInstructions ==
    [f \in {ResearchFile, "implementation-phase.instructions.md",
            "coding-standards.instructions.md"} |->
        [kind |-> "file",
         text |-> CASE f = ResearchFile -> "# Research Phase Agent Instructions"
                    [] f = "implementation-phase.instructions.md" ->
                           "# Implementation Phase Agent Instructions"
                    [] OTHER -> "# Coding Standards Instructions"]]

\* the instructions directories the model starts from: as shipped (a file for the
\* research phase, none for the other phases); and with an entry for the implement
\* phase that exists and cannot be read as a file (a directory, a file without
\* read permission)
InstrDirs ==
    { ShippedInstructions,
      ShippedInstructions @@
          [f \in {"implement-phase.instructions.md"} |-> [kind |-> "unreadable", text |-> ""]] }

\* the orchestrate calls of the model (on one instance, one output directory);
\* the two are interchangeable, and "a" is the one that is called first
Runs == {"a", "b"}

CalledBefore(r) == IF r = "b" THEN {"a"} ELSE {}

\* who invokes runPhase: an orchestrate call, or a client of the public method
Callers == Runs \cup {"direct"}

Tasks == {"build X", ""}

\* the task of an orchestrate call: any of Tasks for the first call, one more task
\* for the second
TasksOf(r) == IF r = "a" THEN Tasks ELSE {"build Y"}

----------------------------------------------------------------------------
(* MultiPhaseOrchestrator.orchestrate *)

PhaseOrder == <<"research", "plan", "implement", "correct">>

NextPhaseSkippingImplement(p) ==
    IF p = "plan" THEN "correct" ELSE PhaseOrder[1 + CHOOSE i \in 1..3 : PhaseOrder[i] = p]

\* the phase orchestrate runs after phase p
NextPhase(p) == PhaseOrder[1 + CHOOSE i \in 1..3 : PhaseOrder[i] = p]

TaskDescriptionWithoutTask(phase, t) ==
    "Task: " \o
    CASE phase = "research" ->
           "\n\nConduct thorough research for this task. Verify assumptions, explore multiple approaches, and document findings."
      [] phase = "plan" ->
           "\n\nBased on the research above, create a detailed implementation plan."
      [] phase = "implement" ->
           "\n\nImplement the solution following the plan above."
      [] phase = "correct" ->
           "\n\nReview the implementation and create a corrective plan if issues are found."

\* the second argument of each runPhase call of orchestrate
TaskDescription(phase, t) ==
    "Task: " \o t \o
    CASE phase = "research" ->
           "\n\nConduct thorough research for this task. Verify assumptions, explore multiple approaches, and document findings."
      [] phase = "plan" ->
           "\n\nBased on the research above, create a detailed implementation plan."
      [] phase = "implement" ->
           "\n\nImplement the solution following the plan above."
      [] phase = "correct" ->
           "\n\nReview the implementation and create a corrective plan if issues are found."

InitialResultsPrefilled == [i \in 1..4 |-> <<PhaseOrder[i], "">>]

\* `const results: WorkflowResults = {}`: the result map a call starts from
InitialResults == EmptyMap

HandedOnShared(local, field) == field

HandedOnWithLeftovers(local, field) == IF Len(field) > Len(local) THEN field ELSE local

\* the map orchestrate hands to runPhase: its local previousResults; the
\* instance field phaseResults (line 24) is assigned by runPhase (line 130) and
\* read nowhere
HandedOn(local, field) == local

MapAfterRunPhaseStoringOwn(prev, out) ==
    IF out.wrote THEN Put(prev, out.phase, out.result) ELSE prev

\* the map object orchestrate passed to runPhase, as the call leaves it:
\* runPhase reads it with Object.keys and Object.entries (lines 100-105) and
\* assigns to none of its properties
MapAfterRunPhase(prev, out) == prev

AfterRunPhaseSwallowing(out, phase) == phase

\* `await this.runPhase(...)`: a rejection propagates out of orchestrate, a
\* resolution leaves orchestrate waiting to continue after that phase
AfterRunPhase(out, phase) == IF out.threw THEN "rejected" ELSE phase

----------------------------------------------------------------------------
(* Paths (sequences of segments) and the constructor *)

\* path.join(base, ...segs): ".." removes the segment before it
RECURSIVE PathJoin(_, _)
PathJoin(base, segs) ==
    IF Len(segs) = 0 THEN base
    ELSE IF Head(segs) = ".." THEN PathJoin(SubSeq(base, 1, Len(base) - 1), Tail(segs))
    ELSE PathJoin(Append(base, Head(segs)), Tail(segs))

\* a path and the directories above it
WithParents(path) == {SubSeq(path, 1, n) : n \in 1..Len(path)}

\* the directory the package is installed in (the parent of bin/ and src/)
PackageRoot == <<"usr", "lib", "node_modules", "complex-task-agent">>

\* main: instructionsDir and outputDir, from the directory of the orchestrator.ts
\* that is executed (__dirname)
MainInstructionsDir(dirname) == PathJoin(dirname, <<"..", "instructions">>)

MainOutputDir(dirname) == PathJoin(dirname, <<"..", "outputs">>)

ConstructorAlwaysMkdir(iDir, oDir, mkdirOk) ==
    /\ constructions' = constructions + 1
    /\ IF oDir \notin existing /\ mkdirOk
       THEN /\ existing' = existing \cup WithParents(oDir)
            /\ constructed' = "ok"
            /\ instructionsDir' = iDir
            /\ outputDir' = oDir
       ELSE /\ constructed' = "threw"
            /\ UNCHANGED <<existing, instructionsDir, outputDir>>

\* new MultiPhaseOrchestrator(iDir, oDir): sets the two fields, and creates oDir
\* with its parents when nothing exists at that path.  mkdirOk: whether mkdirSync
\* succeeds; when it throws, the constructor throws and there is no instance
\* (the fields shown stay those of the instance constructed before)
Constructor(iDir, oDir, mkdirOk) ==
    /\ constructions' = constructions + 1
    /\ IF oDir \in existing
       THEN /\ constructed' = "ok"
            /\ instructionsDir' = iDir
            /\ outputDir' = oDir
            /\ UNCHANGED existing
       ELSE IF mkdirOk
       THEN /\ existing' = existing \cup WithParents(oDir)
            /\ constructed' = "ok"
            /\ instructionsDir' = iDir
            /\ outputDir' = oDir
       ELSE /\ constructed' = "threw"
            /\ UNCHANGED <<existing, instructionsDir, outputDir>>

\* the process and file system for an orchestrator constructed by main from the
\* package's own copy of orchestrator.ts, its orchestrate not yet called
HostInit ==
    /\ existing = WithParents(MainInstructionsDir(PackageRoot \o <<"src">>))
                  \cup WithParents(MainOutputDir(PackageRoot \o <<"src">>))
                  \cup WithParents(PackageRoot \o <<"src", "orchestrator.ts">>)
    /\ instructionsDir = MainInstructionsDir(PackageRoot \o <<"src">>)
    /\ outputDir = MainOutputDir(PackageRoot \o <<"src">>)
    /\ constructions = 1
    /\ constructed = "ok"
    /\ command = "ts-node"
    /\ argv = <<"build X">>
    /\ orchestratorPath = PackageRoot \o <<"src", "orchestrator.ts">>
    /\ procPc = "main"
    /\ exitCode = -1
    /\ gitignore = ""
    /\ initReports = <<>>

\* the orchestrator's own state and its two directories when nothing has run
ProgramInit ==
    /\ clock = ClockBase
    /\ instr \in InstrDirs
    /\ outputs = <<>>
    /\ writeCount = <<>>
    /\ written = [c \in Callers |-> <<>>]
    /\ writeFailures = [c \in Callers |-> <<>>]
    /\ calls = [c \in Callers |-> <<>>]
    /\ phaseResults = EmptyMap
    /\ pc = [r \in Runs |-> "idle"]
    /\ task = [r \in Runs |-> ""]
    /\ results = [r \in Runs |-> EmptyMap]
    /\ previousResults = [r \in Runs |-> EmptyMap]
    /\ awaited = [r \in Runs |-> ""]
    /\ err = [r \in Runs |-> ""]

Init == HostInit /\ ProgramInit

\* orchestrate(t) up to its first await: the locals, then runPhase("research", ...)
\* with no previousResults argument
Orchestrate(r) ==
    /\ pc[r] = "idle"
    /\ \A q \in CalledBefore(r) : pc[q] # "idle"
    /\ \E t \in TasksOf(r), t1 \in Readings(clock), writeOk \in BOOLEAN :
         \E t2 \in Readings(t1) :
           LET out == RunPhase("research", TaskDescription("research", t), NoPrevious,
                               instr, t1, t2, writeOk)
           IN  /\ DoRunPhase(r, out, t1, t2)
               /\ task' = [task EXCEPT ![r] = t]
               /\ results' = [results EXCEPT ![r] = InitialResults]
               /\ previousResults' = [previousResults EXCEPT ![r] = EmptyMap]
               /\ pc' = [pc EXCEPT ![r] = AfterRunPhase(out, "research")]
               /\ awaited' = [awaited EXCEPT ![r] = out.result]
               /\ err' = [err EXCEPT ![r] = out.error]
    /\ UNCHANGED instr

\* orchestrate from the await of phase pc[r] to the next await: store the result
\* in results and previousResults, then runPhase(next phase, ..., previousResults)
Resume(r) ==
    /\ pc[r] \in {"research", "plan", "implement"}
    /\ \E t1 \in Readings(clock), writeOk \in BOOLEAN :
         \E t2 \in Readings(t1) :
           LET p == pc[r]
               q == NextPhase(p)
               prev1 == Put(previousResults[r], p, awaited[r])
               out == RunPhase(q, TaskDescription(q, task[r]),
                               Previous(HandedOn(prev1, phaseResults)),
                               instr, t1, t2, writeOk)
           IN  /\ DoRunPhase(r, out, t1, t2)
               /\ results' = [results EXCEPT ![r] = Put(results[r], p, awaited[r])]
               /\ previousResults' = [previousResults EXCEPT
                                          ![r] = MapAfterRunPhase(prev1, out)]
               /\ pc' = [pc EXCEPT ![r] = AfterRunPhase(out, q)]
               /\ awaited' = [awaited EXCEPT ![r] = out.result]
               /\ err' = [err EXCEPT ![r] = out.error]
    /\ UNCHANGED <<instr, task>>

\* orchestrate after the await of the correct phase: store the result, write
\* the summary, return results
Finish(r) ==
    /\ pc[r] = "correct"
    /\ \E t3 \in Readings(clock), writeOk \in BOOLEAN :
           LET res1 == Put(results[r], "correct", awaited[r])
               name == SummaryFileName(t3)
           IN  /\ clock' = t3
               /\ results' = [results EXCEPT ![r] = res1]
               /\ IF writeOk
                  THEN /\ outputs' = WriteFile(outputs, name, JsonStringify(res1))
                       /\ writeCount' = CountWrite(writeCount, name)
                       /\ written' = [written EXCEPT ![r] =
                                         Append(@, [kind |-> "summary", phase |-> "",
                                                    name |-> name,
                                                    text |-> JsonStringify(res1)])]
                       /\ pc' = [pc EXCEPT ![r] = "done"]
                       /\ UNCHANGED <<err, writeFailures>>
                  ELSE /\ pc' = [pc EXCEPT ![r] = "rejected"]
                       /\ err' = [err EXCEPT ![r] = "Error: writeFileSync failed"]
                       /\ writeFailures' = [writeFailures EXCEPT ![r] = Append(@, "summary")]
                       /\ UNCHANGED <<outputs, writeCount, written>>
    /\ UNCHANGED <<instr, calls, phaseResults, task, previousResults, awaited>>
    /\ UNCHANGED hostVars

Next == \E r \in Runs : Orchestrate(r) \/ Resume(r) \/ Finish(r)

Spec == Init /\ [][Next]_vars

----------------------------------------------------------------------------
(* runPhase invoked directly (it is a public method): one invocation, its
   arguments drawn from the sets below *)

DirectPhases == {"research", "deploy", "constructor"}

\* a text of n characters
LongText(n) == SubSeq(Rep("abcdefghij", n \div 10 + 1), 1, n)

\* lengths of prior results around the preview threshold
PreviewLengths ==
    {0, 1, PreviewLimit - 1, PreviewLimit, PreviewLimit + 1, PreviewLimit + MaxExtra}

\* the previousResults arguments of the direct invocations
DirectPrevious ==
    {NoPrevious, Previous(EmptyMap)}
    \cup {Previous(<<<<"research", LongText(n)>>>>) : n \in PreviewLengths}
    \cup {Previous(<<<<"research", WorkerResult("research")>>, <<"plan", LongText(n)>>>>) :
            n \in {PreviewLimit, PreviewLimit + 1}}
    \cup {Previous(<<<<"research", LongText(PreviewLimit)>>,
                     <<"plan", LongText(PreviewLimit + 1)>>>>)}

DirectRunPhase ==
    /\ calls["direct"] = <<>>
    /\ \E phaseName \in DirectPhases, t \in Tasks, prev \in DirectPrevious,
          t1 \in Readings(clock), writeOk \in BOOLEAN :
         \E t2 \in Readings(t1) :
           DoRunPhase("direct", RunPhase(phaseName, t, prev, instr, t1, t2, writeOk), t1, t2)
    /\ UNCHANGED <<instr, pc, task, results, previousResults, awaited, err>>

\* one orchestrate call on its own
NextOne == Orchestrate("a") \/ Resume("a") \/ Finish("a")

SpecOne == Init /\ [][NextOne]_vars

\* one orchestrate call whose continuations are always run: the event loop runs
\* the continuation of every settled promise, and runPhase settles without
\* waiting for anything outside the process
SpecOneFair == Init /\ [][NextOne]_vars /\ WF_vars(NextOne)

NextRunPhase == DirectRunPhase

----------------------------------------------------------------------------
(* The instructions directory changed from outside the process (an editor,
   another process) around and during runPhase invocations for one phase *)

\* an instruction text longer than the preview threshold
LongInstruction == "# Research, revised\n" \o LongText(PreviewLimit + 1)

\* the texts the environment writes into the research instruction file
EnvTexts == {ShippedInstructions[ResearchFile].text, LongInstruction}

\* directory dir without the entry `name`
RemoveEntry(dir, name) == [f \in (DOMAIN dir) \ {name} |-> dir[f]]

\* the directory as one loadInstructionFile call finds it when existsSync sees
\* atCheck and readFileSync sees atRead: an entry that existsSync finds and that
\* is gone at readFileSync makes readFileSync throw
SeenBy(atCheck, atRead) ==
    [f \in DOMAIN atCheck |->
        IF f \in DOMAIN atRead THEN atRead[f] ELSE [kind |-> "unreadable", text |-> ""]]

\* the previousResults arguments of these invocations
EnvPrevious ==
    {NoPrevious,
     Previous(<<<<"research", WorkerResult("research")>>,
                <<"plan", LongText(PreviewLimit + 1)>>,
                <<"implement", LongText(PreviewLimit)>>>>)}

\* the environment creates the research instruction file or changes its text
EnvWriteInstruction ==
    /\ \E text \in EnvTexts :
          /\ instr' = [f \in (DOMAIN instr) \cup {ResearchFile} |->
                          IF f = ResearchFile THEN [kind |-> "file", text |-> text]
                          ELSE instr[f]]
          /\ instr' # instr
    /\ UNCHANGED <<clock, outputs, writeCount, written, writeFailures, calls,
                   phaseResults, pc, task, results, previousResults, awaited, err>>
    /\ UNCHANGED hostVars

\* the environment removes the research instruction file
EnvRemoveInstruction ==
    /\ ResearchFile \in DOMAIN instr
    /\ instr' = RemoveEntry(instr, ResearchFile)
    /\ UNCHANGED <<clock, outputs, writeCount, written, writeFailures, calls,
                   phaseResults, pc, task, results, previousResults, awaited, err>>
    /\ UNCHANGED hostVars

\* the (n+1)-th runPhase("research", ...) invocation; `removed`: the environment
\* removes the file after loadInstructionFile's existsSync and before its
\* readFileSync
EnvRunPhase(n) ==
    /\ Len(calls["direct"]) = n
    /\ \E prev \in EnvPrevious, t1 \in Readings(clock), writeOk \in BOOLEAN,
          removed \in {b \in BOOLEAN : b => ResearchFile \in DOMAIN instr} :
         \E t2 \in Readings(t1) :
           LET atRead == IF removed THEN RemoveEntry(instr, ResearchFile) ELSE instr
           IN  /\ DoRunPhase("direct",
                             RunPhase("research", "build X", prev, SeenBy(instr, atRead),
                                      t1, t2, writeOk), t1, t2)
               /\ instr' = atRead
    /\ UNCHANGED <<pc, task, results, previousResults, awaited, err>>

NextEnv == EnvWriteInstruction \/ EnvRemoveInstruction \/ EnvRunPhase(0) \/ EnvRunPhase(1)

\* an instance constructed, the directory as shipped, nothing invoked yet
InitEnv == Init /\ instr = ShippedInstructions

SpecEnv == InitEnv /\ [][NextEnv]_vars

SpecRunPhase == Init /\ [][NextRunPhase]_vars

----------------------------------------------------------------------------
(* The constructor evaluated repeatedly for one output directory, runPhase
   writing into the directory in between *)

\* the output directory before anything is constructed: absent, or present and
\* holding the .gitkeep file that `complex-task init` puts there
InitConstruct ==
    /\ clock = ClockBase
    /\ instr = ShippedInstructions
    /\ \/ /\ existing = WithParents(MainInstructionsDir(PackageRoot \o <<"src">>))
          /\ outputs = <<>>
       \/ /\ existing = WithParents(MainInstructionsDir(PackageRoot \o <<"src">>))
                        \cup WithParents(MainOutputDir(PackageRoot \o <<"src">>))
          /\ outputs = WriteFile(<<>>, ".gitkeep", "")
    /\ writeCount = <<>>
    /\ written = [c \in Callers |-> <<>>]
    /\ writeFailures = [c \in Callers |-> <<>>]
    /\ calls = [c \in Callers |-> <<>>]
    /\ phaseResults = EmptyMap
    /\ pc = [r \in Runs |-> "idle"]
    /\ task = [r \in Runs |-> ""]
    /\ results = [r \in Runs |-> EmptyMap]
    /\ previousResults = [r \in Runs |-> EmptyMap]
    /\ awaited = [r \in Runs |-> ""]
    /\ err = [r \in Runs |-> ""]
    /\ instructionsDir = <<>>
    /\ outputDir = <<>>
    /\ constructions = 0
    /\ constructed = "none"
    /\ command = "ts-node"
    /\ argv = <<"build X">>
    /\ orchestratorPath = PackageRoot \o <<"src", "orchestrator.ts">>
    /\ procPc = "main"
    /\ exitCode = -1
    /\ gitignore = ""
    /\ initReports = <<>>

\* new MultiPhaseOrchestrator(instructionsDir, outputDir) as main evaluates it
Construct ==
    /\ constructions < MaxConstructions
    /\ \E mkdirOk \in BOOLEAN :
          Constructor(MainInstructionsDir(PackageRoot \o <<"src">>),
                      MainOutputDir(PackageRoot \o <<"src">>), mkdirOk)
    /\ UNCHANGED <<clock, instr, outputs, writeCount, written, writeFailures, calls,
                   phaseResults, pc, task, results, previousResults, awaited, err,
                   command, argv, orchestratorPath, procPc, exitCode, gitignore,
                   initReports>>

\* runPhase on an instance that has been constructed
ConstructedRunPhase == outputDir # <<>> /\ DirectRunPhase

NextConstruct == Construct \/ ConstructedRunPhase

SpecConstruct == InitConstruct /\ [][NextConstruct]_vars

----------------------------------------------------------------------------
(* The commands: `ts-node orchestrator.ts <task>` (main) and
   `complex-task orchestrate <task>` (the wrapper script, which runs main in a
   child process and exits 1 when the child fails) *)

\* the current directory of the command: the user's project
ProjectDir == <<"home", "dev", "project">>

\* runOrchestrator: the copy of orchestrator.ts installed in the project
LocalOrchestrator ==
    PathJoin(ProjectDir, <<"node_modules", "complex-task-agent", "src", "orchestrator.ts">>)

\* runOrchestrator: the copy in the package the wrapper script belongs to
PackageOrchestrator == PathJoin(PackageRoot, <<"src", "orchestrator.ts">>)

\* __dirname of a script
Dirname(path) == SubSeq(path, 1, Len(path) - 1)

\* args.join(" ")
RECURSIVE JoinArgs(_)
JoinArgs(args) ==
    IF Len(args) = 0 THEN ""
    ELSE IF Len(args) = 1 THEN args[1]
    ELSE args[1] \o " " \o JoinArgs(Tail(args))

InitializedInstructionsOnly(fs, cwd) == PathJoin(cwd, <<"instructions">>) \in fs

\* runOrchestrator: the check that the project is initialized
Initialized(fs, cwd) ==
    /\ PathJoin(cwd, <<".claude">>) \in fs
    /\ PathJoin(cwd, <<"instructions">>) \in fs

ExitCodeAlwaysZero(outcome) == 0

\* the exit code of the command for the way orchestrate ended: the process ends
\* with 0 when main's promise resolves, main().catch exits 1 (and the wrapper
\* exits 1 when the child did not exit 0)
ExitCodeOf(outcome) == IF outcome = "done" THEN 0 ELSE 1

\* process.exit(code)
Exit(code) == procPc' = "exited" /\ exitCode' = code

\* the command lines and file systems the commands start from: the project with
\* or without .claude/, instructions/ and an installed copy of the package
InitCli ==
    /\ ProgramInit
    /\ command \in {"ts-node", "complex-task"}
    /\ argv \in {<<>>, <<"">>, <<"build X">>}
    /\ \E claude, instructions, local \in BOOLEAN :
          existing =
              WithParents(ProjectDir)
              \cup WithParents(MainInstructionsDir(Dirname(PackageOrchestrator)))
              \cup WithParents(PackageOrchestrator)
              \cup (IF claude THEN {PathJoin(ProjectDir, <<".claude">>)} ELSE {})
              \cup (IF instructions THEN {PathJoin(ProjectDir, <<"instructions">>)} ELSE {})
              \cup (IF local
                    THEN WithParents(LocalOrchestrator)
                         \cup {MainInstructionsDir(Dirname(LocalOrchestrator))}
                    ELSE {})
    /\ instructionsDir = <<>>
    /\ outputDir = <<>>
    /\ constructions = 0
    /\ constructed = "none"
    /\ orchestratorPath = <<>>
    /\ procPc = "shell"
    /\ exitCode = -1
    /\ gitignore = ""
    /\ initReports = <<>>

\* complex-task orchestrate <task>: the switch case and runOrchestrator up to
\* execSync
CliOrchestrate ==
    /\ command = "complex-task"
    /\ procPc = "shell"
    /\ IF Len(argv) = 0 \/ argv[1] = ""
       THEN Exit(1) /\ UNCHANGED orchestratorPath
       ELSE IF ~Initialized(existing, ProjectDir)
       THEN Exit(1) /\ UNCHANGED orchestratorPath
       ELSE IF LocalOrchestrator \in existing
       THEN orchestratorPath' = LocalOrchestrator /\ procPc' = "spawned"
                                                  /\ UNCHANGED exitCode
       ELSE IF PackageOrchestrator \in existing
       THEN orchestratorPath' = PackageOrchestrator /\ procPc' = "spawned"
                                                    /\ UNCHANGED exitCode
       ELSE Exit(1) /\ UNCHANGED orchestratorPath
    /\ UNCHANGED <<clock, instr, outputs, writeCount, written, writeFailures, calls,
                   phaseResults, pc, task, results, previousResults, awaited, err,
                   existing, instructionsDir, outputDir, constructions, constructed,
                   command, argv, gitignore, initReports>>

\* ts-node <path>/orchestrator.ts <task>, typed by the user for either copy
TsNode ==
    /\ command = "ts-node"
    /\ procPc = "shell"
    /\ orchestratorPath' \in {PackageOrchestrator, LocalOrchestrator} \cap existing
    /\ procPc' = "spawned"
    /\ UNCHANGED <<clock, instr, outputs, writeCount, written, writeFailures, calls,
                   phaseResults, pc, task, results, previousResults, awaited, err,
                   existing, instructionsDir, outputDir, constructions, constructed,
                   command, argv, exitCode, gitignore, initReports>>

\* main up to the call of orchestrate: the argument check and the constructor
\* (a constructor that throws rejects main, and main().catch exits 1)
MainStart ==
    /\ procPc = "spawned"
    /\ IF Len(argv) = 0
       THEN /\ Exit(1)
            /\ UNCHANGED <<existing, instructionsDir, outputDir, constructions, constructed>>
       ELSE \E mkdirOk \in BOOLEAN :
              /\ Constructor(MainInstructionsDir(Dirname(orchestratorPath)),
                             MainOutputDir(Dirname(orchestratorPath)), mkdirOk)
              /\ IF mkdirOk \/ MainOutputDir(Dirname(orchestratorPath)) \in existing
                 THEN procPc' = "main" /\ UNCHANGED exitCode
                 ELSE Exit(1)
    /\ UNCHANGED <<clock, instr, outputs, writeCount, written, writeFailures, calls,
                   phaseResults, pc, task, results, previousResults, awaited, err,
                   command, argv, orchestratorPath, gitignore, initReports>>

\* main: orchestrator.orchestrate(task) with task = args.join(" ")
MainOrchestrate ==
    /\ procPc = "main"
    /\ Orchestrate("a")
    /\ task'["a"] = JoinArgs(argv)

\* main: the continuations of orchestrate
MainResume == procPc = "main" /\ Resume("a")

MainFinish == procPc = "main" /\ Finish("a")

\* the command ends when orchestrate has resolved or rejected
MainExit ==
    /\ procPc = "main"
    /\ pc["a"] \in {"done", "rejected"}
    /\ Exit(ExitCodeOf(pc["a"]))
    /\ UNCHANGED <<clock, instr, outputs, writeCount, written, writeFailures, calls,
                   phaseResults, pc, task, results, previousResults, awaited, err,
                   existing, instructionsDir, outputDir, constructions, constructed,
                   command, argv, orchestratorPath, gitignore, initReports>>

NextCli ==
    \/ CliOrchestrate
    \/ TsNode
    \/ MainStart
    \/ MainOrchestrate
    \/ MainResume
    \/ MainFinish
    \/ MainExit

SpecCli == InitCli /\ [][NextCli]_vars

----------------------------------------------------------------------------
(* Properties *)

Last(seq) == seq[Len(seq)]

\* C1: an orchestrate call that completes returns a map with exactly the keys
\* research, plan, implement, correct, in that order, every value a non-empty string
C1_FourEntriesInOrder ==
    \A r \in Runs :
        pc[r] = "done" =>
            /\ Keys(results[r]) = <<"research", "plan", "implement", "correct">>
            /\ \A i \in 1..Len(results[r]) : Len(results[r][i][2]) > 0

\* a call has completed, for each task of the model
C1_Witness ==
    /\ pc["a"] = "done" /\ task["a"] = ""
    /\ pc["b"] = "done" /\ task["b"] = "build Y"


\* C2: in an orchestrate run the payload of every phase after the first contains
\* the (possibly truncated) result of every strictly earlier phase of the run, and
\* no payload contains the result of its own phase or of a later phase.
\* (Stated for the latest invocation against all the others: every invocation is
\* the latest one in some reachable state.)
C2_PayloadHoldsEarlierResultsOnly ==
    \A r \in Runs :
        Len(calls[r]) > 0 =>
            LET n == Len(calls[r])
                c == calls[r][n]
                shown(text) == IF Len(text) > 1000
                               THEN SubSeq(text, 1, 1000) \o "..." ELSE text
            IN  /\ c.prompt # "" =>
                     /\ \A j \in 1..(n - 1) : Contains(c.prompt, shown(calls[r][j].result))
                     /\ c.result # "" => ~Contains(c.prompt, c.result)
                /\ c.result # "" =>
                     \A j \in 1..(n - 1) :
                         calls[r][j].prompt # "" => ~Contains(calls[r][j].prompt, c.result)

\* the correct phase of a call has assembled its payload from three earlier results
C2_Witness ==
    /\ Len(calls["a"]) = 4
    /\ calls["a"][4].phase = "correct"
    /\ calls["a"][4].prompt # ""
    /\ \A j \in 1..3 : calls["a"][j].result # ""

\* C3: the preview of a prior result of length L is its first min(L, 1000)
\* characters, followed by the marker "..." if and only if L > 1000: the block of
\* the prior phase holds exactly that text
C3_TruncationLaw ==
    \A i \in 1..Len(calls["direct"]) :
        LET c == calls["direct"][i]
        IN  (c.prompt # "" /\ c.prev.given) =>
                \A k \in 1..Len(c.prev.entries) :
                    LET result == c.prev.entries[k][2]
                        L == Len(result)
                        label == IF c.prev.entries[k][1] = "research"
                                 THEN "RESEARCH" ELSE "PLAN"
                        block(text) == "### " \o label \o " Phase:\n" \o text \o "\n"
                    IN  /\ L <= 1000 =>
                            /\ Contains(c.prompt, block(result))
                            /\ ~Contains(c.prompt, block(result \o "..."))
                        /\ L > 1000 =>
                            /\ Contains(c.prompt, block(SubSeq(result, 1, 1000) \o "..."))
                            /\ ~Contains(c.prompt, SubSeq(result, 1, 1001))

\* a payload has been assembled from a prior result of exactly 1000 characters
\* and one of 1001 characters
C3_Witness ==
    \E i \in 1..Len(calls["direct"]) :
        LET c == calls["direct"][i]
        IN  /\ c.prompt # ""
            /\ \E k \in 1..Len(c.prev.entries) : Len(c.prev.entries[k][2]) = 1000
            /\ \E k \in 1..Len(c.prev.entries) : Len(c.prev.entries[k][2]) = 1001


\* a runPhase invocation of caller c failed at a step other than the write of its record
PhaseFailed(c, i) == calls[c][i].threw /\ calls[c][i].failedAt # "savePhaseOutput"

C5_PhaseFailureIsCaptured ==
    \A c \in Callers :
        \A i \in 1..Len(calls[c]) : ~PhaseFailed(c, i)

\* C6: a failed write of a phase record or of the summary is fatal: the call is
\* rejected with the error, no phase runs after the failed write, and no summary
\* is written after a failed record write
C6_WriteFailureIsFatal ==
    \A r \in Runs :
        Len(writeFailures[r]) > 0 =>
            /\ Len(writeFailures[r]) = 1
            /\ pc[r] = "rejected"
            /\ err[r] = "Error: writeFileSync failed"
            /\ writeFailures[r][1] = "phase" =>
                 /\ Last(calls[r]).failedAt = "savePhaseOutput"
                 /\ \A i \in 1..(Len(calls[r]) - 1) : ~calls[r][i].threw
                 /\ \A k \in 1..Len(written[r]) : written[r][k].kind # "summary"
                 /\ Len(written[r]) = Len(calls[r]) - 1
            /\ writeFailures[r][1] = "summary" =>
                 /\ Len(calls[r]) = 4
                 /\ \A k \in 1..Len(written[r]) : written[r][k].kind # "summary"

\* the write of the record of a phase before the last has failed in one call, and
\* the write of the summary in the other
C6_Witness ==
    /\ writeFailures["a"] = <<"phase">> /\ Len(calls["a"]) = 2
    /\ writeFailures["b"] = <<"summary">>

\* C7: phase records are write-once: no record file is written twice, and every
\* record a call has written is still in the output directory with its content
C7_RecordsAreWriteOnce ==
    \A c \in Callers :
        \A k \in 1..Len(written[c]) :
            written[c][k].kind = "phase" =>
                /\ writeCount[written[c][k].name] = 1
                /\ outputs[written[c][k].name] = written[c][k].text

\* C8: the five file names one orchestrate call writes are pairwise distinct
C8_LocatorsDistinctWithinRun ==
    \A r \in Runs :
        \A i, j \in 1..Len(written[r]) :
            i # j => written[r][i].name # written[r][j].name

\* a call has written its five files without the clock advancing
C8_Witness ==
    \E r \in Runs :
        /\ pc[r] = "done"
        /\ Len(written[r]) = 5
        /\ clock = ClockBase

\* the timestamp a file name carries: what follows the last "_", without ".json"
TimestampPart(name) ==
    LET cut == CHOOSE i \in 1..Len(name) :
                   /\ CharAt(name, i) = "_"
                   /\ \A j \in (i + 1)..Len(name) : CharAt(name, j) # "_"
    IN  SubSeq(name, cut + 1, Len(name) - 5)

\* C9 as claimed: sorted by name, the files of one call are in creation order
C9_NameOrderIsCreationOrder ==
    \A r \in Runs :
        \A i, j \in 1..Len(written[r]) :
            i < j => StrLess(written[r][i].name, written[r][j].name)

\* C9 amended: in creation order, the timestamps in the names of the files of one
\* call never decrease
C9_NameTimestampsNeverDecrease ==
    \A r \in Runs :
        \A i, j \in 1..Len(written[r]) :
            i < j => ~StrLess(TimestampPart(written[r][j].name),
                              TimestampPart(written[r][i].name))

\* a call has written its five files, two of them in the same millisecond and two
\* in different milliseconds
C9_Witness ==
    \E r \in Runs :
        /\ pc[r] = "done"
        /\ Len(written[r]) = 5
        /\ TimestampPart(written[r][1].name) = TimestampPart(written[r][2].name)
        /\ TimestampPart(written[r][2].name) # TimestampPart(written[r][5].name)

\* the timestamp fields of the records caller c has persisted, in execution order
RecordTimestamps(c) ==
    LET RECURSIVE From(_)
        From(i) == IF i > Len(calls[c]) THEN <<>>
                   ELSE (IF calls[c][i].wrote THEN <<calls[c][i].phaseOutput.timestamp>>
                         ELSE <<>>) \o From(i + 1)
    IN  From(1)

\* C10 as claimed: the timestamps of the records of one call strictly increase
C10_TimestampsStrictlyIncrease ==
    \A r \in Runs :
        \A i, j \in 1..Len(RecordTimestamps(r)) :
            i < j => StrLess(RecordTimestamps(r)[i], RecordTimestamps(r)[j])

\* C10 amended: the timestamps of the records of one call never decrease
C10_TimestampsNeverDecrease ==
    \A r \in Runs :
        \A i, j \in 1..Len(RecordTimestamps(r)) :
            i < j => ~StrLess(RecordTimestamps(r)[j], RecordTimestamps(r)[i])

\* a call has persisted its four records, two consecutive ones with the same
\* timestamp and the last with a later one
C10_Witness ==
    \E r \in Runs :
        /\ Len(RecordTimestamps(r)) = 4
        /\ RecordTimestamps(r)[1] = RecordTimestamps(r)[2]
        /\ StrLess(RecordTimestamps(r)[2], RecordTimestamps(r)[4])

\* the phases whose runPhase invocation has returned to caller c
CompletedPhases(c) == {calls[c][i].phase : i \in {j \in 1..Len(calls[c]) : ~calls[c][j].threw}}

\* C11: at every point of an orchestrate call every key of its running result
\* map is a phase whose runPhase invocation has already returned in that call;
\* the map never holds an entry for a phase that has not been attempted
C11_ResultKeysAreCompletedPhases ==
    \A r \in Runs :
        \A i \in 1..Len(results[r]) : results[r][i][1] \in CompletedPhases(r)

\* mid-run: the implement phase of a call has returned and is not stored yet,
\* the map holds research and plan, correct has not been attempted
C11_Witness ==
    \E r \in Runs :
        /\ pc[r] = "implement"
        /\ Keys(results[r]) = <<"research", "plan">>
        /\ CompletedPhases(r) = {"research", "plan", "implement"}

\* the files of the runPhase invocations of caller c that returned, in order
ReturnedFiles(c) ==
    LET RECURSIVE From(_)
        From(i) == IF i > Len(calls[c]) THEN <<>>
                   ELSE (IF calls[c][i].threw THEN <<>> ELSE <<calls[c][i].file>>)
                        \o From(i + 1)
    IN  From(1)

\* the names of the phase record files caller c has written, in order
PhaseRecordWrites(c) ==
    LET RECURSIVE From(_)
        From(i) == IF i > Len(written[c]) THEN <<>>
                   ELSE (IF written[c][i].kind = "phase" THEN <<written[c][i].name>>
                         ELSE <<>>) \o From(i + 1)
    IN  From(1)

\* the number of writeFileSync calls made so far
TotalWrites ==
    LET RECURSIVE Sum(_)
        Sum(names) == IF names = {} THEN 0
                      ELSE LET n == CHOOSE x \in names : TRUE
                           IN  writeCount[n] + Sum(names \ {n})
    IN  Sum(DOMAIN writeCount)

\* C12: every runPhase invocation that returns has made exactly one write, of its
\* own phase record file, and an invocation that does not return has made none;
\* a call of orchestrate that completes has made exactly four phase record
\* writes followed by one summary write
C12_OneWritePerInvocation ==
    /\ \A c \in Callers : PhaseRecordWrites(c) = ReturnedFiles(c)
    /\ TotalWrites = Len(written["a"]) + Len(written["b"]) + Len(written["direct"])
    /\ \A r \in Runs :
           pc[r] = "done" =>
               /\ Len(written[r]) = 5
               /\ \A i \in 1..4 : written[r][i].kind = "phase"
               /\ written[r][5].kind = "summary"

\* one call has completed and the other was rejected by a failed write after two
\* of its invocations had returned
C12_Witness ==
    \E r, q \in Runs :
        /\ pc[r] = "done"
        /\ pc[q] = "rejected"
        /\ Len(ReturnedFiles(q)) = 2
        /\ Len(calls[q]) = 3
        /\ writeFailures[q] = <<"phase">>

\* the value of key k in the ordered map m ("" when the key is absent)
Get(m, k) == IF HasKey(m, k) THEN m[CHOOSE i \in 1..Len(m) : m[i][1] = k][2] ELSE ""

\* C13: every persisted phase record either has a non-empty result and no error
\* member, or has a non-empty error and an empty result; none carries both.
\* The persisted text is the JSON text of the record the invocation built.
C13_ResultAndErrorExclusive ==
    \A c \in Callers :
        \A i \in 1..Len(calls[c]) :
            calls[c][i].wrote =>
                LET m == PhaseOutputMap(calls[c][i].phaseOutput)
                IN  /\ \E k \in 1..Len(written[c]) :
                           /\ written[c][k].name = calls[c][i].file
                           /\ written[c][k].text = JsonStringify(m)
                    /\ \/ Get(m, "result") # "" /\ ~HasKey(m, "error")
                       \/ Get(m, "error") # "" /\ Get(m, "result") = ""

\* a call has persisted its four records, each with a result and no error member
C13_Witness ==
    /\ Len(written["a"]) >= 4
    /\ \A i \in 1..4 :
           /\ calls["a"][i].wrote
           /\ Get(PhaseOutputMap(calls["a"][i].phaseOutput), "result") # ""
           /\ ~HasKey(PhaseOutputMap(calls["a"][i].phaseOutput), "error")

\* C14: whenever a call has persisted a summary, it did so after its four
\* runPhase invocations research, plan, implement, correct had been made in that
\* order and each had persisted its record; the summary is the call's fifth
\* write and its text is the map with an entry for each of the four phases;
\* a summary write that fails is attempted after the four records as well
C14_SummaryAfterAllPhases ==
    /\ \A r \in Runs :
        \A k \in 1..Len(written[r]) :
            written[r][k].kind = "summary" =>
                /\ k = 5
                /\ [i \in 1..4 |-> written[r][i].kind] = [i \in 1..4 |-> "phase"]
                /\ [i \in 1..4 |-> written[r][i].phase] = PhaseOrder
                /\ [i \in 1..Len(calls[r]) |-> calls[r][i].phase] = PhaseOrder
                /\ \A i \in 1..4 : calls[r][i].wrote
                /\ Keys(results[r]) = PhaseOrder
                /\ written[r][k].text = JsonStringify(results[r])
    /\ \A r \in Runs :
           writeFailures[r] = <<"summary">> =>
               /\ [i \in 1..Len(calls[r]) |-> calls[r][i].phase] = PhaseOrder
               /\ \A i \in 1..4 : calls[r][i].wrote

\* both calls have persisted their summaries
C14_Witness ==
    \A r \in Runs :
        /\ Len(written[r]) = 5
        /\ written[r][5].kind = "summary"
        /\ written[r][5].name \in DOMAIN outputs

\* C15: an orchestrate call that has started and in which no write fails
\* eventually reaches the terminal state: the four phases attempted, the summary
\* persisted and the call resolved with the result map
C15_TerminatesUnlessWriteFails ==
    (pc["a"] # "idle") ~>
        \/ /\ pc["a"] = "done"
           /\ Len(calls["a"]) = 4
           /\ Len(written["a"]) = 5
           /\ Keys(results["a"]) = PhaseOrder
        \/ writeFailures["a"] # <<>>

\* C16: within one orchestrate call the phases run one after the other in the
\* configured order: when the i-th runPhase invocation is made, every earlier
\* one has returned, its record is the call's write of the same position, its
\* result is stored in the running result map, and the map handed to the i-th
\* invocation holds exactly the earlier phases with their results, in order
C16_PhasesStrictlySequential ==
    \A r \in Runs :
        /\ Len(written[r]) >= Len(calls[r]) - 1
        /\ Len(results[r]) >= Len(calls[r]) - 1
        /\ \A i \in 1..Len(calls[r]) :
               /\ calls[r][i].phase = PhaseOrder[i]
               /\ \A j \in 1..(i - 1) :
                      /\ calls[r][j].wrote
                      /\ written[r][j].kind = "phase"
                      /\ written[r][j].name = calls[r][j].file
                      /\ results[r][j] = <<PhaseOrder[j], calls[r][j].result>>
               /\ i > 1 =>
                      /\ calls[r][i].prev.given
                      /\ calls[r][i].prev.entries =
                             [j \in 1..(i - 1) |-> <<PhaseOrder[j], calls[r][j].result>>]

\* the correct phase of one call has started while the other call is between
\* its plan and implement phases
C16_Witness ==
    \E r, q \in Runs :
        /\ Len(calls[r]) = 4
        /\ Len(calls[r][4].prev.entries) = 3
        /\ calls[r][4].wrote
        /\ pc[q] = "plan"
        /\ Len(calls[q]) = 2

\* the phases and results of the first n runPhase invocations of call r
OwnResults(r, n) == [j \in 1..n |-> <<calls[r][j].phase, calls[r][j].result>>]

\* C17: with the steps of two orchestrate calls on one instance interleaved,
\* the map handed to each phase of a call holds the results of that call's own
\* earlier phases and nothing else, the payload of the phase is the one built
\* from the call's own task and that map, and the map a call returns holds the
\* results of its own four phases
C17_RunsDoNotShareResults ==
    \A r \in Runs :
        /\ \A i \in 2..Len(calls[r]) : calls[r][i].prev.entries = OwnResults(r, i - 1)
        /\ Len(calls[r]) > 0 =>
               LET n == Len(calls[r])
                   c == calls[r][n]
               IN  c.prompt # "" =>
                       c.prompt =
                           FullPrompt(TaskDescription(c.phase, task[r]),
                                      IF n = 1 THEN NoPrevious
                                      ELSE Previous(OwnResults(r, n - 1)),
                                      LoadInstructionFile(instr, c.phase \o InstructionSuffix).text)
        /\ pc[r] = "done" => results[r] = OwnResults(r, 4)

\* a call has made its plan phase after the other call's implement phase had
\* stored its result in the instance field: the field holds three phases, the
\* plan phase was handed one
C17_Witness ==
    \E r, q \in Runs :
        /\ r # q
        /\ Len(calls[r]) >= 3 /\ calls[r][3].wrote
        /\ Len(calls[q]) = 2 /\ calls[q][2].wrote
        /\ StrLess(calls[r][3].phaseOutput.timestamp, calls[q][2].phaseOutput.timestamp)
        /\ Len(phaseResults) >= 3
        /\ Len(calls[q][2].prev.entries) = 1
        /\ task[r] # task[q]

\* C18: when both orchestrate calls have finished, every phase record and
\* summary either of them wrote is in the output directory with the content it
\* was written with
C18_ConcurrentWritersKeepEveryFile ==
    (\A r \in Runs : pc[r] \in {"done", "rejected"}) =>
        \A r \in Runs :
            \A k \in 1..Len(written[r]) :
                /\ written[r][k].name \in DOMAIN outputs
                /\ outputs[written[r][k].name] = written[r][k].text

\* the phase names getAgentConfig registers
RegisteredPhases == {"research", "plan", "implement", "correct"}

\* C19: for every identifier runPhase is invoked with, getAgentConfig returns a
\* configuration that has a description, a tool list and a model, and for an
\* identifier that is not registered it returns the synthesized default: the
\* description derived from the identifier, the tools Read, Write, Grep, Glob and
\* the model sonnet
C19_LookupIsTotal ==
    \A i \in 1..Len(calls["direct"]) :
        LET phase == calls["direct"][i].phase
            agentConfig == GetAgentConfig(phase)
        IN  /\ agentConfig.hasTools
            /\ agentConfig.description # "undefined"
            /\ agentConfig.model # "undefined"
            /\ phase \notin RegisteredPhases =>
                   /\ agentConfig.tools = <<"Read", "Write", "Grep", "Glob">>
                   /\ agentConfig.model = "sonnet"
                   /\ agentConfig.description =
                          ToUpperCase(SubSeq(phase, 1, Min(1, Len(phase))))
                          \o SubSeq(phase, 2, Len(phase)) \o " phase specialist"

\* whether text s ends with text e
EndsWith(s, e) == Len(s) >= Len(e) /\ SubSeq(s, Len(s) - Len(e) + 1, Len(s)) = e

\* C21: when the instruction file of a phase is absent, the loader does not
\* fail: it warns, the payload of the phase ends with the synthesized
\* instruction "Execute the <phase> phase of the workflow.", and the phase
\* persists its record (it fails only if the write of the record itself fails)
C21_MissingInstructionFileIsNotFatal ==
    \A i \in 1..Len(calls["a"]) :
        LET c == calls["a"][i]
        IN  (c.phase \o InstructionSuffix) \notin DOMAIN instr =>
                /\ c.warned
                /\ c.failedAt # "loadInstructionFile"
                /\ EndsWith(c.prompt, InstructionHeader \o "Execute the " \o c.phase
                                      \o " phase of the workflow.")
                /\ c.threw => c.failedAt = "savePhaseOutput"
                /\ ~c.threw =>
                       /\ c.wrote
                       /\ written["a"][i].name = c.file
                       /\ c.file \in DOMAIN outputs

\* the plan phase, whose instruction file is not shipped, has persisted its record
C21_Witness ==
    /\ Len(calls["a"]) >= 2
    /\ calls["a"][2].phase = "plan"
    /\ "plan-phase.instructions.md" \notin DOMAIN instr
    /\ calls["a"][2].warned
    /\ calls["a"][2].wrote

\* the instruction texts a runPhase("research", ...) invocation can load
ResearchInstructionTexts == EnvTexts \cup {"Execute the research phase of the workflow."}

\* what a payload shows of a prior result
Shown(result) == IF Len(result) > 1000 THEN SubSeq(result, 1, 1000) \o "..." ELSE result

\* the labelled block of entry e of a prior-results map
LabelledBlock(e) == "\n### " \o ToUpperCase(e[1]) \o " Phase:\n" \o Shown(e[2]) \o "\n"

\* whether, from position `at` of payload p, the blocks of entries k.. follow one
\* another and are followed by the instruction header and one instruction text,
\* in full, up to the end of p
RECURSIVE BlocksThenInstructions(_, _, _, _)
BlocksThenInstructions(p, at, entries, k) ==
    IF k > Len(entries)
    THEN \E text \in ResearchInstructionTexts :
             SubSeq(p, at, Len(p)) = "\n\n## Phase Instructions:\n" \o text
    ELSE LET b == LabelledBlock(entries[k])
         IN  /\ SubSeq(p, at, at + Len(b) - 1) = b
             /\ BlocksThenInstructions(p, at + Len(b), entries, k + 1)

\* C22: a payload is the task text, then, when there are prior results, the
\* header and one labelled block per prior phase in the order of the map, then
\* the phase instructions as the last part and in full, however long they are
C22_PayloadOrder ==
    \A i \in 1..Len(calls["direct"]) :
        LET c == calls["direct"][i]
            p == c.prompt
            n == Len(c.taskDescription)
            h == "\n\n## Context from Previous Phases:\n"
        IN  p # "" =>
                /\ SubSeq(p, 1, n) = c.taskDescription
                /\ IF c.prev.given /\ Len(c.prev.entries) > 0
                   THEN /\ SubSeq(p, n + 1, n + Len(h)) = h
                        /\ BlocksThenInstructions(p, n + Len(h) + 1, c.prev.entries, 1)
                   ELSE BlocksThenInstructions(p, n + 1, <<>>, 1)

\* a payload built from three prior results, one of them truncated, ends with
\* the instruction text of more than 1000 characters
C22_Witness ==
    \E i \in 1..Len(calls["direct"]) :
        /\ Len(calls["direct"][i].prev.entries) = 3
        /\ EndsWith(calls["direct"][i].prompt, LongInstruction)
        /\ Len(LongInstruction) > 1000

\* C23: a payload built with no prior-results map, or with an empty one, has
\* neither the context header nor any phase block: the instruction header
\* follows the task text directly
C23_NoContextWithoutPriorResults ==
    \A c \in Callers :
        \A i \in 1..Len(calls[c]) :
            LET p == calls[c][i].prompt
                n == Len(calls[c][i].taskDescription)
                h == "\n\n## Phase Instructions:\n"
            IN  (p # "" /\ (~calls[c][i].prev.given \/ calls[c][i].prev.entries = <<>>)) =>
                    /\ ~Contains(p, "## Context from Previous Phases:")
                    /\ ~Contains(p, "### ")
                    /\ SubSeq(p, 1, n) = calls[c][i].taskDescription
                    /\ SubSeq(p, n + 1, n + Len(h)) = h

\* runPhase("research", ...) has built a payload from an empty map
C23_Witness ==
    /\ Len(calls["direct"]) = 1
    /\ calls["direct"][1].phase = "research"
    /\ calls["direct"][1].prev = Previous(EmptyMap)
    /\ calls["direct"][1].prompt # ""

\* C24: every evaluation of the constructor leaves the output directory
\* existing unless it throws; when the directory exists already it does not
\* throw and changes neither the file system nor any file of the directory; and
\* once an instance has been constructed, constructing again changes nothing
\* but the number of instances
C24_ConstructorIsIdempotent ==
    [][constructions' = constructions + 1 =>
          /\ constructed' = "ok" => MainOutputDir(PackageRoot \o <<"src">>) \in existing'
          /\ MainOutputDir(PackageRoot \o <<"src">>) \in existing =>
                 /\ constructed' = "ok"
                 /\ existing' = existing
          /\ outputs' = outputs
          /\ constructed = "ok" =>
                 /\ constructed' = "ok"
                 /\ existing' = existing
                 /\ instructionsDir' = instructionsDir
                 /\ outputDir' = outputDir]_vars

\* the constructor has been evaluated three times for a directory that holds
\* the file that was there before and a record written by runPhase
C24_Witness ==
    /\ constructions = 3
    /\ constructed = "ok"
    /\ ".gitkeep" \in DOMAIN outputs
    /\ Len(written["direct"]) = 1
    /\ outputDir \in existing

\* C25: the command has exit code 0 only when orchestrate has persisted its
\* four phase records and the summary; when it has exited after a failed write
\* to the output directory, or was given no task, its exit code is not 0
C25_ExitCodeReflectsPersistence ==
    /\ exitCode = 0 =>
           /\ pc["a"] = "done"
           /\ [i \in 1..Len(written["a"]) |-> written["a"][i].kind] =
                  <<"phase", "phase", "phase", "phase", "summary">>
           /\ \A i \in 1..5 : written["a"][i].name \in DOMAIN outputs
    /\ (procPc = "exited" /\ writeFailures["a"] # <<>>) => exitCode = 1
    /\ (procPc = "exited" /\ JoinArgs(argv) = "" /\ command = "complex-task") => exitCode = 1
    /\ (procPc = "exited" /\ argv = <<>>) => exitCode = 1

\* the command has exited with code 0 through the wrapper script
C25_Witness ==
    /\ command = "complex-task"
    /\ procPc = "exited"
    /\ exitCode = 0
    /\ Len(written["a"]) = 5

\* C26: with the shipped instruction files in the directory, the instruction
\* section of the payload of every phase of an orchestrate call is the content
\* of a file of the directory and not the synthesized text, and the implement
\* phase carries the content of implementation-phase.instructions.md
C26_EveryPhaseUsesAnInstructionFile ==
    instr = ShippedInstructions =>
        \A i \in 1..Len(calls["a"]) :
            LET c == calls["a"][i]
            IN  c.prompt # "" =>
                    /\ ~c.warned
                    /\ \E f \in DOMAIN instr :
                           EndsWith(c.prompt, InstructionHeader \o instr[f].text)
                    /\ c.phase = "implement" =>
                           EndsWith(c.prompt,
                                    InstructionHeader
                                    \o instr["implementation-phase.instructions.md"].text)

\* C27: an orchestrator started through `complex-task orchestrate` from an
\* initialized project loads its instructions from the project's instructions
\* directory and writes into the project's outputs directory, whichever copy of
\* orchestrator.ts is executed
C27_CliUsesProjectDirectories ==
    (command = "complex-task" /\ constructed = "ok") =>
        /\ instructionsDir = PathJoin(ProjectDir, <<"instructions">>)
        /\ outputDir = PathJoin(ProjectDir, <<"outputs">>)

\* C28: when .claude/ or instructions/ is missing in the current directory,
\* `complex-task orchestrate <task>` does not start the orchestrator: nothing is
\* constructed, no phase runs, nothing is written, and the command exits with 1
C28_OrchestrateRequiresInit ==
    (/\ command = "complex-task"
     /\ \/ PathJoin(ProjectDir, <<".claude">>) \notin existing
        \/ PathJoin(ProjectDir, <<"instructions">>) \notin existing) =>
        /\ procPc \in {"shell", "exited"}
        /\ procPc = "exited" => exitCode = 1
        /\ constructions = 0
        /\ pc["a"] = "idle"
        /\ calls["a"] = <<>>
        /\ written["a"] = <<>>
        /\ outputs = <<>>

\* the command given a task has exited with 1 in a project that has
\* instructions/ and no .claude/
C28_Witness ==
    /\ command = "complex-task"
    /\ argv = <<"build X">>
    /\ PathJoin(ProjectDir, <<"instructions">>) \in existing
    /\ PathJoin(ProjectDir, <<".claude">>) \notin existing
    /\ procPc = "exited"
    /\ exitCode = 1

\* C29: whenever the instruction file of a phase is removed, also between the
\* loader's existence check and its read, runPhase does not throw for that
\* reason and the record of the phase is persisted (unless its write fails)
C29_RemovalNeverFailsThePhase ==
    \A i \in 1..Len(calls["direct"]) :
        /\ calls["direct"][i].failedAt # "loadInstructionFile"
        /\ calls["direct"][i].failedAt = "" => calls["direct"][i].wrote

\* C30: every runPhase invocation that assembles a payload uses the instruction
\* text that is in the directory at that invocation: the content of the file as
\* it is then, or the synthesized text (with a warning) when there is no file
\* then, whatever an earlier invocation loaded
C30_InstructionsLoadedFresh ==
    [][Len(calls'["direct"]) = Len(calls["direct"]) + 1 =>
          LET c == calls'["direct"][Len(calls'["direct"])]
          IN  c.prompt # "" =>
                  IF ResearchFile \in DOMAIN instr
                  THEN /\ ~c.warned
                       /\ EndsWith(c.prompt, InstructionHeader \o instr[ResearchFile].text)
                  ELSE /\ c.warned
                       /\ EndsWith(c.prompt, InstructionHeader
                                             \o "Execute the research phase of the workflow.")
       ]_vars

\* two invocations for the research phase, the file changed between them: the
\* first payload ends with the shipped text, the second with the new one
C30_Witness ==
    /\ Len(calls["direct"]) = 2
    /\ EndsWith(calls["direct"][1].prompt,
                InstructionHeader \o "# Research Phase Agent Instructions")
    /\ EndsWith(calls["direct"][2].prompt, InstructionHeader \o LongInstruction)

----------------------------------------------------------------------------
(* runPhase invoked for phase identifiers inside and outside the registry of
   getAgentConfig, with and without an instruction file for the identifier *)

DeployFile == "deploy-phase.instructions.md"

\* the user adds an instruction file for the phase "deploy"
EnvAddDeployInstruction ==
    /\ DeployFile \notin DOMAIN instr
    /\ instr' = [f \in (DOMAIN instr) \cup {DeployFile} |->
                    IF f = DeployFile
                    THEN [kind |-> "file", text |-> "# Deploy Phase Agent Instructions"]
                    ELSE instr[f]]
    /\ UNCHANGED <<clock, outputs, writeCount, written, writeFailures, calls,
                   phaseResults, pc, task, results, previousResults, awaited, err>>
    /\ UNCHANGED hostVars

\* the (n+1)-th direct runPhase invocation, for any of DirectPhases
GapRunPhase(n) ==
    /\ Len(calls["direct"]) = n
    /\ \E phaseName \in DirectPhases, prev \in EnvPrevious,
          t1 \in Readings(clock), writeOk \in BOOLEAN :
         \E t2 \in Readings(t1) :
           DoRunPhase("direct",
                      RunPhase(phaseName, "build X", prev, instr, t1, t2, writeOk), t1, t2)
    /\ UNCHANGED <<instr, pc, task, results, previousResults, awaited, err>>

NextGap == EnvAddDeployInstruction \/ GapRunPhase(0) \/ GapRunPhase(1)

SpecGap == InitEnv /\ [][NextGap]_vars

\* C31: every runPhase invocation for an identifier that is not in the registry
\* emits a warning and persists its record (it fails only if the write of the
\* record fails), whether or not an instruction file for the identifier exists
C31_ConfigurationGapIsWarnedNotFatal ==
    \A i \in 1..Len(calls["direct"]) :
        LET c == calls["direct"][i]
        IN  c.phase \notin RegisteredPhases =>
                /\ c.warned
                /\ c.threw => c.failedAt = "savePhaseOutput"
                /\ ~c.threw => c.wrote /\ c.file \in DOMAIN outputs

----------------------------------------------------------------------------
(* Two orchestrate calls on one instance, the second made when the first has
   resolved or rejected *)

SecondCall ==
    /\ pc["a"] \in {"done", "rejected"}
    /\ Orchestrate("b") \/ Resume("b") \/ Finish("b")

NextSeq == NextOne \/ SecondCall

SpecSeq == Init /\ [][NextSeq]_vars

----------------------------------------------------------------------------
(* Properties of the task and of failed writes *)

\* the text every payload of call r is to begin with
TaskPrefix(r) == "Task: " \o task[r] \o "\n\n"

\* every payload call r has assembled begins with the task of the call
PayloadsBeginWithTask ==
    \A r \in Runs :
        \A i \in 1..Len(calls[r]) :
            LET c == calls[r][i]
            IN  /\ SubSeq(c.taskDescription, 1, Len(TaskPrefix(r))) = TaskPrefix(r)
                /\ c.prompt # "" =>
                       SubSeq(c.prompt, 1, Len(TaskPrefix(r))) = TaskPrefix(r)

\* C32: the task of an orchestrate call is read-only for the run: once the call
\* has started no step changes its task, and every phase payload of the call
\* begins with "Task: " followed by the task text that was passed to orchestrate
C32_TaskIsReadOnly ==
    /\ []PayloadsBeginWithTask
    /\ [][\A r \in Runs : pc[r] # "idle" => task'[r] = task[r]]_vars

\* a call has assembled its four payloads, and a later call on the instance,
\* with another task, has assembled payloads of its own
C32_Witness ==
    /\ pc["a"] = "done"
    /\ task["a"] = "build X"
    /\ \A i \in 1..4 : calls["a"][i].prompt # ""
    /\ task["b"] = "build Y"
    /\ Len(calls["b"]) >= 2
    /\ calls["b"][2].prompt # ""

----------------------------------------------------------------------------
(* `complex-task init`: initProject and performInit of the wrapper script, run
   in the project directory, possibly more than once *)

\* how many times the command is run
MaxInits == 2

LowerChar(c) ==
    IF \E i \in 1..26 : CharAt(UpperLetters, i) = c
    THEN CharAt(Lower, CHOOSE i \in 1..26 : CharAt(UpperLetters, i) = c)
    ELSE c

\* String.prototype.toLowerCase
RECURSIVE ToLowerCase(_)
ToLowerCase(s) ==
    IF Len(s) = 0 THEN ""
    ELSE LowerChar(CharAt(s, 1)) \o ToLowerCase(SubSeq(s, 2, Len(s)))

IsWhitespace(c) == c \in {" ", "\n", "\t", "\r"}

RECURSIVE TrimStart(_)
TrimStart(s) ==
    IF Len(s) > 0 /\ IsWhitespace(CharAt(s, 1)) THEN TrimStart(SubSeq(s, 2, Len(s))) ELSE s

RECURSIVE TrimEnd(_)
TrimEnd(s) ==
    IF Len(s) > 0 /\ IsWhitespace(CharAt(s, Len(s)))
    THEN TrimEnd(SubSeq(s, 1, Len(s) - 1)) ELSE s

\* String.prototype.trim
Trim(s) == TrimEnd(TrimStart(s))

\* performInit: ignoreEntries
IgnoreEntries ==
    <<"\n# Complex Task Agent outputs", "outputs/*.json", "outputs/*.md", "research/">>

\* performInit: the loop over ignoreEntries from entry k on; an entry is appended
\* with a line break unless the content includes the trimmed entry
RECURSIVE AppendMissingEntries(_, _, _)
AppendMissingEntries(content, updated, k) ==
    IF k > Len(IgnoreEntries) THEN [content |-> content, updated |-> updated]
    ELSE IF ~Contains(content, Trim(IgnoreEntries[k]))
         THEN AppendMissingEntries(content \o IgnoreEntries[k] \o "\n", TRUE, k + 1)
         ELSE AppendMissingEntries(content, updated, k + 1)

\* performInit: gitignoreContent and updated after the loop
UpdateGitignore(content) == AppendMissingEntries(content, FALSE, 1)

\* whether path p is inside directory d
IsUnder(p, d) == Len(p) > Len(d) /\ SubSeq(p, 1, Len(d)) = d

\* copyDirectoryRecursive(src, dest) on the file system fs (src exists)
CopyDirectoryRecursive(fs, src, dest) ==
    fs \cup WithParents(dest)
       \cup {dest \o SubSeq(p, Len(src) + 1, Len(p)) : p \in {q \in fs : IsUnder(q, src)}}

\* the files of the package that init copies
PackageFiles ==
    WithParents(PathJoin(PackageRoot, <<".claude", "commands", "orchestrate.md">>))
    \cup UNION {WithParents(PathJoin(PackageRoot, <<"instructions", f>>)) :
                   f \in {<<"research-phase.instructions.md">>,
                          <<"implementation-phase.instructions.md">>,
                          <<"coding-standards.instructions.md">>}}

GitignorePath == PathJoin(ProjectDir, <<".gitignore">>)

\* the contents of .gitignore before the first init: empty, other entries with
\* and without a final line break, entries of which an exclusion is a substring,
\* and an exclusion already there
GitignoreContents ==
    {"", "node_modules\n", "node_modules", "my-research/\n",
     "old-outputs/*.json\nold-outputs/*.md\n", "research/\n"}

\* what the user answers to "Overwrite existing files? (y/N)"
Answers == {"y", "Yes", "n", ""}

\* the project (present or not, with or without a .gitignore) and the package
\* (complete, or without its .claude directory) before the first init
InitInit ==
    /\ ProgramInit
    /\ command = "init"
    /\ argv = <<>>
    /\ \E project, complete, ignore \in BOOLEAN :
          /\ existing =
                 WithParents(PackageOrchestrator)
                 \cup (IF complete THEN PackageFiles
                       ELSE {p \in PackageFiles :
                               ~IsUnder(p, PathJoin(PackageRoot, <<".claude">>))
                               /\ p # PathJoin(PackageRoot, <<".claude">>)})
                 \cup (IF project THEN WithParents(ProjectDir) ELSE {})
                 \cup (IF project /\ ignore THEN {GitignorePath} ELSE {})
          /\ gitignore \in (IF project /\ ignore THEN GitignoreContents ELSE {""})
    /\ instructionsDir = <<>>
    /\ outputDir = <<>>
    /\ constructions = 0
    /\ constructed = "none"
    /\ orchestratorPath = <<>>
    /\ procPc = "shell"
    /\ exitCode = -1
    /\ initReports = <<>>

\* the end of one init with report `report` and exit code `code`
EndInit(report, code) ==
    /\ initReports' = Append(initReports, report)
    /\ Exit(code)

\* performInit(targetPath) for the project directory; writeOk: whether the
\* write of .gitignore succeeds.  Every error is caught and ends in exit(1)
PerformInit(writeOk) ==
    LET claudeSrc == PathJoin(PackageRoot, <<".claude">>)
        claudeDest == PathJoin(ProjectDir, <<".claude">>)
        instructionsSrc == PathJoin(PackageRoot, <<"instructions">>)
        instructionsDest == PathJoin(ProjectDir, <<"instructions">>)
        outputsDir == PathJoin(ProjectDir, <<"outputs">>)
        fs1 == CopyDirectoryRecursive(existing, claudeSrc, claudeDest)
        fs2 == CopyDirectoryRecursive(fs1, instructionsSrc, instructionsDest)
        fs3 == fs2 \cup {outputsDir, PathJoin(outputsDir, <<".gitkeep">>)}
        read == IF GitignorePath \in existing THEN gitignore ELSE ""
        upd == UpdateGitignore(read)
    IN  IF claudeSrc \notin existing
        THEN \* copyDirectoryRecursive: mkdirSync(dest), then readdirSync(src) throws
             /\ existing' = existing \cup {claudeDest}
             /\ EndInit("failed", 1)
             /\ UNCHANGED gitignore
        ELSE IF upd.updated /\ ~writeOk
        THEN /\ existing' = fs3
             /\ EndInit("failed", 1)
             /\ UNCHANGED gitignore
        ELSE /\ existing' = fs3 \cup (IF upd.updated THEN {GitignorePath} ELSE {})
                                \cup {PathJoin(ProjectDir, <<"COMPLEX_TASK_AGENT.md">>)}
             /\ gitignore' = IF upd.updated THEN upd.content ELSE gitignore
             /\ EndInit(IF upd.updated THEN "updated" ELSE "already configured", 0)

\* what init leaves alone
InitFrame ==
    UNCHANGED <<clock, instr, outputs, writeCount, written, writeFailures, calls,
                phaseResults, pc, task, results, previousResults, awaited, err,
                instructionsDir, outputDir, constructions, constructed,
                command, argv, orchestratorPath>>

\* initProject('.'): up to the question when the project is initialized already,
\* and through performInit otherwise
InitProject ==
    /\ command = "init"
    /\ procPc = "shell"
    /\ IF ProjectDir \notin existing
       THEN EndInit("no directory", 1) /\ UNCHANGED <<existing, gitignore>>
       ELSE IF /\ PathJoin(ProjectDir, <<".claude">>) \in existing
               /\ PathJoin(ProjectDir, <<".claude", "commands", "orchestrate.md">>) \in existing
       THEN procPc' = "asking" /\ UNCHANGED <<existing, gitignore, initReports, exitCode>>
       ELSE \E writeOk \in BOOLEAN : PerformInit(writeOk)
    /\ InitFrame

\* the callback of readline.question
InitAnswer ==
    /\ procPc = "asking"
    /\ \E answer \in Answers :
          IF ToLowerCase(answer) # "y" /\ ToLowerCase(answer) # "yes"
          THEN EndInit("cancelled", 0) /\ UNCHANGED <<existing, gitignore>>
          ELSE \E writeOk \in BOOLEAN : PerformInit(writeOk)
    /\ InitFrame

\* the user runs the command again
InitAgain ==
    /\ command = "init"
    /\ procPc = "exited"
    /\ Len(initReports) < MaxInits
    /\ procPc' = "shell"
    /\ exitCode' = -1
    /\ UNCHANGED <<existing, gitignore, initReports>>
    /\ InitFrame

NextInit == InitProject \/ InitAnswer \/ InitAgain

SpecInit == InitInit /\ [][NextInit]_vars

\* the lines of a text
RECURSIVE SplitLines(_)
SplitLines(s) ==
    LET i == IndexOf(s, "\n")
    IN  IF i = 0 THEN <<s>>
        ELSE <<SubSeq(s, 1, i - 1)>> \o SplitLines(SubSeq(s, i + 1, Len(s)))

\* how many lines of text s are exactly e
CountLines(s, e) == Cardinality({i \in 1..Len(SplitLines(s)) : SplitLines(s)[i] = e})

\* the exclusions init is to put into .gitignore
Exclusions == {"outputs/*.json", "outputs/*.md", "research/"}

\* the latest init has completed
InitCompleted ==
    /\ procPc = "exited"
    /\ Len(initReports) > 0
    /\ Last(initReports) \in {"updated", "already configured"}

\* C33: after an init that completes, the project has a .gitignore in which
\* each of outputs/*.json, outputs/*.md and research/ is a line of its own,
\* whatever .gitignore held before
C33_GitignoreHoldsEveryExclusion ==
    InitCompleted =>
        /\ GitignorePath \in existing
        /\ \A e \in Exclusions : CountLines(gitignore, e) >= 1

\* an init before the latest one has completed
InitializedBefore ==
    \E k \in 1..Len(initReports) : initReports[k] \in {"updated", "already configured"}

\* C38: when init has completed on a project, every later init that goes through
\* performInit leaves .gitignore with exactly the content it had, with each
\* exclusion on one line and no more, and reports that .gitignore is already
\* configured
C38_GitignoreUpdateIsIdempotent ==
    [][(/\ InitializedBefore
        /\ Len(initReports') = Len(initReports) + 1
        /\ Last(initReports') # "cancelled") =>
           /\ gitignore' = gitignore
           /\ Last(initReports') = "already configured"
           /\ \A e \in Exclusions : CountLines(gitignore', e) = 1]_vars

\* no run whose latest runPhase invocation failed at the write of its record
\* holds an entry for that phase in its result map or its prior-results map
NoEntryForUnsavedPhase ==
    \A r \in Runs :
        (Len(calls[r]) > 0 /\ Last(calls[r]).failedAt = "savePhaseOutput") =>
            /\ pc[r] = "rejected"
            /\ ~HasKey(results[r], Last(calls[r]).phase)
            /\ ~HasKey(previousResults[r], Last(calls[r]).phase)

\* C34: a runPhase invocation in which the write of the record fails throws
\* before any result is stored: the step leaves the instance's phaseResults as
\* it was, and neither then nor later does the run's result map or its
\* prior-results map hold an entry for that phase
C34_FailedWriteStoresNothing ==
    /\ []NoEntryForUnsavedPhase
    /\ [][\A c \in Callers :
             (/\ Len(calls'[c]) = Len(calls[c]) + 1
              /\ Last(calls'[c]).failedAt = "savePhaseOutput") =>
                 phaseResults' = phaseResults]_vars

\* the write of the implement record of a call failed when no implement phase
\* had stored a result: the instance field holds research and plan only
C34_Witness ==
    /\ Len(calls["a"]) = 3
    /\ calls["a"][3].failedAt = "savePhaseOutput"
    /\ Keys(phaseResults) = <<"research", "plan">>
    /\ Keys(results["a"]) = <<"research", "plan">>
    /\ pc["b"] = "idle"

----------------------------------------------------------------------------
(* Reading the persisted files back: JSON.parse of an object of strings *)

RECURSIVE SkipWhitespace(_, _)
SkipWhitespace(s, i) ==
    IF i <= Len(s) /\ IsWhitespace(CharAt(s, i)) THEN SkipWhitespace(s, i + 1) ELSE i

\* the character an escape sequence \e stands for
Unescape(e) == CASE e = "n" -> "\n" [] e = "t" -> "\t" [] e = "r" -> "\r" [] OTHER -> e

\* the number of consecutive backslashes of s that end at position k, counted
\* no further back than position from
BackslashRun(s, from, k) ==
    LET others == {j \in from..k : CharAt(s, j) # "\\"}
    IN  IF others = {} THEN k - from + 1
        ELSE k - (CHOOSE j \in others : \A m \in others : m <= j)

\* the text an escaped text stands for (s starts and ends at whole escapes)
RECURSIVE UnescapeText(_)
UnescapeText(s) ==
    IF Len(s) <= 1 THEN s
    ELSE IF Len(s) = 2 /\ CharAt(s, 1) = "\\" THEN Unescape(CharAt(s, 2))
    ELSE LET h0 == Len(s) \div 2
             h == IF BackslashRun(s, 1, h0) % 2 = 1 THEN h0 + 1 ELSE h0
         IN  UnescapeText(SubSeq(s, 1, h)) \o UnescapeText(SubSeq(s, h + 1, Len(s)))

\* UnescapeText tabulated on the escaped worker results (evaluated once)
UnescapeTable ==
    [s \in {EscapeTable[r] : r \in DOMAIN EscapeTable} |-> UnescapeText(s)]

\* the position of the first quote of s at or after position i that no
\* backslash escapes (string content starts at position from); 0 if none.
\* The text is searched 64 characters at a time
RECURSIVE ClosingQuote(_, _, _)
ClosingQuote(s, from, i) ==
    IF i > Len(s) THEN 0
    ELSE LET closing == {j \in i..Min(i + 63, Len(s)) :
                            CharAt(s, j) = "\"" /\ BackslashRun(s, from, j - 1) % 2 = 0}
         IN  IF closing = {} THEN ClosingQuote(s, from, i + 64)
             ELSE CHOOSE x \in closing : \A y \in closing : x <= y

\* the characters of a JSON string from position i (after the opening quote) to
\* its closing quote; next is the position after the closing quote
ParseChars(s, i) ==
    LET j == ClosingQuote(s, i, i)
        raw == SubSeq(s, i, j - 1)
    IN  IF j = 0 THEN [value |-> "", next |-> Len(s) + 1, ok |-> FALSE]
        ELSE [value |-> IF raw \in DOMAIN UnescapeTable THEN UnescapeTable[raw]
                        ELSE UnescapeText(raw),
              next |-> j + 1, ok |-> TRUE]

\* the members of a JSON object from position i (after "{" or ","), as an
\* ordered map; <<"<malformed>">> members mark a text that is not such an object
RECURSIVE ParseMembers(_, _)
ParseMembers(s, i) ==
    LET a == SkipWhitespace(s, i)
    IN  IF a > Len(s) THEN <<<<"<malformed>", "">>>>
        ELSE IF CharAt(s, a) = "}" THEN <<>>
        ELSE IF CharAt(s, a) # "\"" THEN <<<<"<malformed>", "">>>>
        ELSE LET key == ParseChars(s, a + 1)
                 colon == SkipWhitespace(s, key.next)
                 quote == SkipWhitespace(s, colon + 1)
                 val == ParseChars(s, quote + 1)
                 after == SkipWhitespace(s, val.next)
             IN  IF ~key.ok \/ colon > Len(s) \/ CharAt(s, colon) # ":"
                    \/ quote > Len(s) \/ CharAt(s, quote) # "\"" \/ ~val.ok
                 THEN <<<<"<malformed>", "">>>>
                 ELSE <<<<key.value, val.value>>>>
                      \o ParseMembers(s, IF after <= Len(s) /\ CharAt(s, after) = ","
                                         THEN after + 1 ELSE after)

\* JSON.parse(text) for an object whose values are strings
JsonParse(text) ==
    LET a == SkipWhitespace(text, 1)
    IN  IF a <= Len(text) /\ CharAt(text, a) = "{" THEN ParseMembers(text, a + 1)
        ELSE <<<<"<malformed>", "">>>>

\* C35: when an orchestrate call has resolved, the summary file it wrote holds
\* the map it returned (same keys, same order, same values), and the result
\* member of the record file of each phase is the map's entry for that phase,
\* whole and as runPhase returned it
C35_ThreeViewsAgree ==
    pc["a"] = "done" =>
        /\ JsonParse(outputs[written["a"][5].name]) = results["a"]
        /\ \A i \in 1..4 :
               LET record == JsonParse(outputs[written["a"][i].name])
               IN  /\ Keys(record) = <<"phase", "timestamp", "result">>
                   /\ Get(record, "phase") = results["a"][i][1]
                   /\ Get(record, "result") = results["a"][i][2]
                   /\ Len(Get(record, "result")) = Len(calls["a"][i].result)
                   /\ calls["a"][i].result = results["a"][i][2]

\* a call has resolved with its five files in the output directory, the results
\* holding line breaks that the files hold escaped
C35_Witness ==
    /\ pc["a"] = "done"
    /\ \A i \in 1..5 : written["a"][i].name \in DOMAIN outputs
    /\ \A i \in 1..4 : Contains(results["a"][i][2], "\n\n")
    /\ ~Contains(outputs[written["a"][5].name], "\n\n")

\* C36: runPhase leaves the prior-results map it is handed as it found it: after
\* each invocation of a call the map object of the call (previousResults) has
\* the keys, values and key order it was handed over with, and from one
\* invocation to the next it differs only by the entry orchestrate adds
C36_RunPhaseLeavesPriorResultsAlone ==
    \A r \in Runs :
        /\ Len(calls[r]) >= 2 => previousResults[r] = Last(calls[r]).prev.entries
        /\ \A i \in 2..(Len(calls[r]) - 1) :
               calls[r][i + 1].prev.entries =
                   Append(calls[r][i].prev.entries,
                          <<calls[r][i].phase, calls[r][i].result>>)

\* the same map has been handed to the plan, implement and correct phases, one
\* entry longer each time
C36_Witness ==
    /\ Len(calls["a"]) = 4
    /\ calls["a"][4].wrote
    /\ [i \in 2..4 |-> Len(calls["a"][i].prev.entries)] = [i \in 2..4 |-> i - 1]
    /\ Keys(previousResults["a"]) = <<"research", "plan", "implement">>

----------------------------------------------------------------------------
(* A call compared with the same call on a fresh instance *)

\* the results of the first n phases of an orchestrate call
FreshResults(n) == [j \in 1..n |-> <<PhaseOrder[j], WorkerResult(PhaseOrder[j])>>]

\* the payload of the k-th phase of orchestrate(t) on an instance on which
\* nothing has run, with instructions directory dir
FreshPayload(k, t, dir) ==
    FullPrompt(TaskDescription(PhaseOrder[k], t),
               IF k = 1 THEN NoPrevious ELSE Previous(FreshResults(k - 1)),
               LoadInstructionFile(dir, PhaseOrder[k] \o InstructionSuffix).text)

\* C37: the phase payloads and the returned map of an orchestrate call are those
\* of the same call on a fresh instance (same task, same instruction files),
\* for the first call on the instance and for a second call made after it: the
\* phaseResults the first call leaves behind reach no payload and no result
C37_NoLeakBetweenRuns ==
    \A r \in Runs :
        /\ \A k \in 1..Len(calls[r]) :
               /\ calls[r][k].phase = PhaseOrder[k]
               /\ calls[r][k].prompt # "" =>
                      calls[r][k].prompt = FreshPayload(k, task[r], instr)
               /\ ~calls[r][k].threw => calls[r][k].result = FreshResults(k)[k][2]
        /\ pc[r] = "done" => results[r] = FreshResults(4)

\* a second call has resolved on an instance whose phaseResults the first call,
\* with another task, had filled
C37_Witness ==
    /\ pc["a"] = "done"
    /\ pc["b"] = "done"
    /\ task["a"] # task["b"]
    /\ Keys(phaseResults) = PhaseOrder
    /\ Len(calls["b"]) = 4
    /\ \A k \in 1..4 : calls["b"][k].prompt # ""

====
